---- MODULE Spec2Model ----
(***************************************************************************)
(* Model of the SSH weak-password detector.                                *)
(*                                                                         *)
(*   src/detectors/ssh_detector.py   SSHDetector.__init__, detect,         *)
(*                                   _try_key_authentication,              *)
(*                                   _try_password_authentication          *)
(*   src/main.py                     WeakPasswordDetector.run_detection,   *)
(*                                   main, is_valid_ip                     *)
(*   src/utils/result_handler.py     ResultHandler.add_result              *)
(*   src/utils/config.py             Config.default_config                 *)
(*                                                                         *)
(* A coroutine runs atomically between two suspension points.  The only    *)
(* suspension points of a trial are `await asyncio.to_thread(...connect)`  *)
(* (pc = "connecting"), `await asyncio.sleep(jitter)` (pc = "sleeping")    *)
(* and the hand-over from detect to run_detection through                  *)
(* asyncio.wait_for (pc = "detect_returned" / "detect_raised").            *)
(* paramiko's connect is the environment: its outcome is chosen            *)
(* nondeterministically among a normal return and the exception classes    *)
(* the source distinguishes.                                               *)
(*                                                                         *)
(* Two harnesses drive the same engine:                                    *)
(*   Spec        main(): gather over run_detection tasks                   *)
(*   SpecDetect  one direct call SSHDetector(...).detect(...) with an      *)
(*               optional private key                                      *)
(***************************************************************************)
EXTENDS Integers, Sequences, FiniteSets, TLC

\* ------------------------------------------------------------------ bounds
MaxPasswords == 2
MaxRetries == 2
MaxTasks == 2

\* ------------------------------------------------------- program constants
MinPort == 1
MaxPort == 65535
DefaultSshPort == 22
DefaultTimeout == 10
DefaultMaxWorkers == 5
DefaultMaxRetries == 3
DefaultMinDelayMs == 500
DefaultMaxDelayMs == 2000

None == 0

\* self.detectors (main.py:39-41)
detectors == {"ssh"}

\* ------------------------------------------------------------------ inputs
\* A target is the text of the address split at '.', each field a sequence
\* of decimal digits.
Ip1 == << <<1, 0>>, <<0>>, <<0>>, <<1>> >>
Ip2 == << <<1, 0>>, <<0>>, <<0>>, <<2>> >>
IpBadOctet == << <<1, 0>>, <<0>>, <<0>>, <<2, 5, 6>> >>
EmptyTarget == << <<>> >>

\* the character '\n' in a field, next to the digits 0..9
Newline == 10

\* "10.0.0.1\n": a single target given with -T is not stripped (main.py:114)
IpNewline == << <<1, 0>>, <<0>>, <<0>>, <<1, Newline>> >>

TargetLists == { <<Ip1>>, <<Ip1, Ip2>>, <<IpBadOctet, Ip1>>, <<IpNewline>> }
UsernameLists == { <<>>, <<"root">> }
ProtocolLists == { <<"ssh">>, <<"ssh", "rdp">> }

\* password lists as the dictionary loader yields them: ordered, no blanks,
\* no duplicates (dictionary_loader.py:19-22)
PasswordLists == { [i \in 1..n |-> n + 1 - i] : n \in 0..MaxPasswords }

\* max_retries as a caller of the constructor may pass it
RetryValues == (0 - 1)..MaxRetries
\* max_retries as run_detection reads it: from the file, or the default
FileRetryValues == {0 - 1, 0, DefaultMaxRetries}
TimeoutValues == {0, DefaultTimeout}
PortValues == {0, DefaultSshPort, 70000}
WorkerValues == {1, DefaultMaxWorkers}

Configs ==
  [timeout : TimeoutValues, max_retries : FileRetryValues,
   port : PortValues, max_workers : WorkerValues]

\* timeout and max_retries of a directly built detector, the port passed to
\* detect
DetectArgs ==
  [timeout : TimeoutValues, max_retries : RetryValues,
   port : PortValues, max_workers : {DefaultMaxWorkers}]

\* outcomes of paramiko's connect, by the classes the except clauses name
Success == "Success"
AuthEx == "AuthenticationException"
NoConnEx == "NoValidConnectionsError"
BadHostEx == "BadHostKeyException"
SshEx == "SSHException"
OtherEx == "Exception"
Failures == {AuthEx, NoConnEx, BadHostEx, SshEx, OtherEx}
Outcomes == {Success} \cup Failures

VARIABLES
  config,      \* Config.config as run_detection / the constructor reads it
  passwords,   \* the password list handed to detect
  tasks,       \* the trial tasks: [protocol, target, username, key]
  trial,       \* per task: position and locals of its coroutine
  results,     \* ResultHandler.results
  main_pc      \* position of main(): "gather" | "reported" | "aborted",
               \* or "direct" when detect is called directly

vars == <<config, passwords, tasks, trial, results, main_pc>>

Tasks == DOMAIN tasks

\* ---------------------------------------------------------------- messages
NoMsg == [msg |-> "None", n |-> 0]
Msg(m) == [msg |-> m, n |-> 0]
MsgN(m, k) == [msg |-> m, n |-> k]

\* the result dict of detect and of the two helpers
NewResult(key_used) ==
  [success |-> FALSE, password |-> None, key_used |-> key_used, error |-> NoMsg]

NewTrial ==
  [pc |-> "pending", phase |-> "none", idx |-> 0, attempt |-> 0,
   result |-> NewResult(FALSE), ret |-> NewResult(FALSE),
   log |-> <<>>, naps |-> <<>>, open |-> {}, orphan |-> "none",
   exc |-> "none"]

\* ------------------------------------------------------------ pure helpers
IsDigit(d) == d \in 0..9

\* one alternative group of ip_pattern: 25[0-5] | 2[0-4][0-9] | [01]?[0-9][0-9]?
OctetOk(f) ==
  /\ \A i \in 1..Len(f) : IsDigit(f[i])
  /\ \/ Len(f) = 3 /\ f[1] = 2 /\ f[2] = 5 /\ f[3] \in 0..5
     \/ Len(f) = 3 /\ f[1] = 2 /\ f[2] \in 0..4
     \/ Len(f) = 3 /\ f[1] \in {0, 1}
     \/ Len(f) = 2
     \/ Len(f) = 1

\* the text up to where `$` of ip_pattern can match: its end, or the line
\* feed that ends it
BeforeFinalNewline(ip) ==
  LET n == Len(ip)
  IN IF n > 0 /\ Len(ip[n]) > 0 /\ ip[n][Len(ip[n])] = Newline
       THEN [ip EXCEPT ![n] = SubSeq(@, 1, Len(@) - 1)]
       ELSE ip

is_valid_ip(ip) ==
  LET s == BeforeFinalNewline(ip)
  IN Len(s) = 4 /\ \A i \in 1..4 : OctetOk(s[i])

\* `not target`
IsEmptyText(ip) == ip = EmptyTarget

\* SSHDetector.__init__ without the comparison of the two delays
SSHDetector_init_unordered(timeout, max_retries, min_delay, max_delay) ==
  /\ ~(max_retries < 0)
  /\ ~(timeout <= 0)
  /\ ~(min_delay < 0)

\* SSHDetector.__init__: TRUE when no ValueError is raised
SSHDetector_init(timeout, max_retries, min_delay, max_delay) ==
  /\ ~(max_retries < 0)
  /\ ~(timeout <= 0)
  /\ ~(min_delay < 0)
  /\ ~(max_delay < min_delay)

\* targets x usernames x protocols, in the nesting order of main
CrossProduct(targets, usernames, protocols) ==
  LET nu == Len(usernames)
      np == Len(protocols)
      total == Len(targets) * nu * np
  IN [k \in 1..total |->
        [target |-> targets[((k - 1) \div (nu * np)) + 1],
         username |-> usernames[(((k - 1) \div np) % nu) + 1],
         protocol |-> protocols[((k - 1) % np) + 1],
         key |-> FALSE]]

\* ------------------------------------------------------------- the engine
\* r is the record of one trial, c the configuration the detector was built
\* from, pw the password list.

\* self.ssh_client = paramiko.SSHClient(); await asyncio.to_thread(connect):
\* the attempt with credential cred (0 = the key, i = passwords[i]) is in
\* flight
StartAttempt(r, cred) ==
  [r EXCEPT !.pc = "connecting",
            !.log = Append(@, [cred |-> cred, out |-> "inflight"])]

\* self.ssh_client.close(): the client is the one of the latest attempt
close(r) == [r EXCEPT !.open = @ \ {Len(r.log)}]

\* detect hands a dict back to its caller
detect_return(r, res) ==
  [r EXCEPT !.pc = "detect_returned", !.phase = "none", !.ret = res]

\* detect, after _try_password_authentication returned
detect_after_password(r) ==
  IF r.result.success
    THEN detect_return(r, r.result)
    ELSE detect_return(r, NewResult(FALSE))

\* _try_password_authentication walking the list from its end
password_loop_reversed(r, c, pw, i) ==
  IF i <= Len(pw) /\ 0 < c.max_retries
    THEN StartAttempt([r EXCEPT !.idx = i, !.attempt = 0], Len(pw) + 1 - i)
    ELSE detect_after_password(r)

\* the two loop headers of _try_password_authentication, entered for
\* password i; when no iteration is left the helper returns its result
password_loop(r, c, pw, i) ==
  IF i <= Len(pw) /\ 0 < c.max_retries
    THEN StartAttempt([r EXCEPT !.idx = i, !.attempt = 0], i)
    ELSE detect_after_password(r)

\* the try body after connect, the except clauses and the finally clause of
\* _try_password_authentication
password_outcome_continue(r, c, pw, out) ==
  CASE out = Success ->
         password_loop(close([r EXCEPT !.result.success = TRUE,
                                       !.result.password = pw[r.idx]]),
                       c, pw, r.idx + 1)
    [] out = AuthEx ->
         password_loop(close([r EXCEPT !.result.error = Msg("auth failed")]),
                       c, pw, r.idx + 1)
    [] out = NoConnEx ->
         password_loop(close([r EXCEPT !.result.error = Msg("no connection")]),
                       c, pw, r.idx + 1)
    [] out = BadHostEx ->
         password_loop(close([r EXCEPT !.result.error = Msg("bad host key")]),
                       c, pw, r.idx + 1)
    [] out = SshEx ->
         password_loop(close([r EXCEPT !.result.error = Msg("ssh protocol error")]),
                       c, pw, r.idx + 1)
    [] OTHER ->
         [close(r) EXCEPT !.pc = "detect_raised", !.phase = "none", !.exc = out]

password_outcome(r, c, pw, out) ==
  CASE out = Success ->
         detect_after_password(close([r EXCEPT !.result.success = TRUE,
                                               !.result.password = pw[r.idx]]))
    [] out = AuthEx ->
         password_loop(close([r EXCEPT !.result.error = Msg("auth failed")]),
                       c, pw, r.idx + 1)
    [] out = NoConnEx ->
         password_loop(close([r EXCEPT !.result.error = Msg("no connection")]),
                       c, pw, r.idx + 1)
    [] out = BadHostEx ->
         password_loop(close([r EXCEPT !.result.error = Msg("bad host key")]),
                       c, pw, r.idx + 1)
    [] out = SshEx ->
         password_loop(close([r EXCEPT !.result.error = Msg("ssh protocol error")]),
                       c, pw, r.idx + 1)
    [] OTHER ->
         [close(r) EXCEPT !.pc = "detect_raised", !.phase = "none", !.exc = out]

try_password_authentication(r, c, pw) ==
  password_loop([r EXCEPT !.phase = "password", !.result = NewResult(FALSE)],
                c, pw, 1)

\* detect, from `if passwords:` to the final return
detect_password_path(r, c, pw) ==
  IF pw # <<>>
    THEN try_password_authentication(r, c, pw)
    ELSE detect_return(r, NewResult(FALSE))

\* detect, after _try_key_authentication returned
detect_after_key_fallthrough(r, c, pw) == detect_password_path(r, c, pw)

detect_after_key(r, c, pw) ==
  IF r.result.success
    THEN detect_return(r, r.result)
    ELSE detect_password_path(r, c, pw)

\* _try_key_authentication making one try more than max_retries
key_loop_inclusive(r, c, pw, a) ==
  IF a <= c.max_retries
    THEN StartAttempt([r EXCEPT !.attempt = a], 0)
    ELSE detect_after_key(r, c, pw)

\* the loop header of _try_key_authentication, entered with attempt = a
key_loop(r, c, pw, a) ==
  IF a < c.max_retries
    THEN StartAttempt([r EXCEPT !.attempt = a], 0)
    ELSE detect_after_key(r, c, pw)

\* _try_key_authentication sleeping after every failed try, the last one
\* included
key_outcome_sleep_after_last(r, c, pw, out) ==
  CASE out = Success ->
         detect_after_key(close([r EXCEPT !.result.success = TRUE]), c, pw)
    [] out = AuthEx ->
         detect_after_key([r EXCEPT !.result.error = Msg("key auth failed")],
                          c, pw)
    [] OTHER ->
         LET r1 == [r EXCEPT !.result.error =
                               MsgN("connection attempt failed", r.attempt + 1)]
         IN [r1 EXCEPT !.pc = "sleeping", !.naps = Append(@, 0)]

\* the try body after connect and the except clauses of
\* _try_key_authentication (there is no finally clause)
key_outcome(r, c, pw, out) ==
  CASE out = Success ->
         detect_after_key(close([r EXCEPT !.result.success = TRUE]), c, pw)
    [] out = AuthEx ->
         detect_after_key([r EXCEPT !.result.error = Msg("key auth failed")],
                          c, pw)
    [] OTHER ->
         LET r1 == [r EXCEPT !.result.error =
                               MsgN("connection attempt failed", r.attempt + 1)]
         IN IF r.attempt < c.max_retries - 1
              THEN [r1 EXCEPT !.pc = "sleeping", !.naps = Append(@, 0)]
              ELSE key_loop(r1, c, pw, r.attempt + 1)

try_key_authentication(r, c, pw) ==
  key_loop([r EXCEPT !.phase = "key", !.result = NewResult(TRUE)], c, pw, 0)

\* detect without the validation of the port
detect_any_port(r, target, port, username, pw, key, c) ==
  IF IsEmptyText(target) \/ username = ""
    THEN detect_return(r, [NewResult(FALSE) EXCEPT
                             !.error = Msg("empty target or username")])
  ELSE IF key
    THEN try_key_authentication(r, c, pw)
    ELSE detect_password_path(r, c, pw)

\* SSHDetector.detect up to its first suspension point
detect(r, target, port, username, pw, key, c) ==
  IF ~(MinPort <= port /\ port <= MaxPort)
    THEN detect_return(r, [NewResult(FALSE) EXCEPT !.error = Msg("invalid port")])
  ELSE IF IsEmptyText(target) \/ username = ""
    THEN detect_return(r, [NewResult(FALSE) EXCEPT
                             !.error = Msg("empty target or username")])
  ELSE IF key
    THEN try_key_authentication(r, c, pw)
    ELSE detect_password_path(r, c, pw)

\* the connect call of the attempt in flight ends with outcome out; active
\* tells whether it leaves the transport of its client active
Landed(r, out, active) ==
  [r EXCEPT !.log[Len(r.log)].out = out,
            !.open = IF active THEN @ \cup {Len(r.log)} ELSE @]

\* what connect can leave behind: a normal return holds an active transport,
\* a refused connection none, any other failure either
CanLeave(out, active) ==
  /\ out = Success => active
  /\ out = NoConnEx => ~active

\* ------------------------------------------------------------ orchestrator
\* ResultHandler.add_result (the timestamp is not modelled)
add_result(protocol, target, port, username, password, success, error) ==
  [protocol |-> protocol, target |-> target, port |-> port,
   username |-> username, password |-> password, success |-> success,
   error |-> error]

\* run_detection up to the first suspension point of detect
run_detection(r, tk, c, pw) ==
  IF tk.protocol \notin detectors
    THEN [r EXCEPT !.pc = "done"]
  ELSE IF ~is_valid_ip(tk.target)
    THEN [r EXCEPT !.pc = "done"]
  ELSE IF ~SSHDetector_init(c.timeout, c.max_retries,
                            DefaultMinDelayMs, DefaultMaxDelayMs)
    THEN [r EXCEPT !.pc = "raised", !.exc = "ValueError"]
  ELSE detect(r, tk.target, c.port, tk.username, pw, FALSE, c)

\* a task that has started and has not finished
Running(r) ==
  r.pc \in {"connecting", "sleeping", "detect_returned", "detect_raised"}

\* ----------------------------------------------------------------- actions
\* the event loop runs the first step of the gathered tasks in list order
RunDetection(t) ==
  /\ main_pc = "gather"
  /\ trial[t].pc = "pending"
  /\ \A u \in Tasks : u < t => trial[u].pc # "pending"
  /\ trial' = [trial EXCEPT ![t] = run_detection(@, tasks[t], config, passwords)]
  /\ UNCHANGED <<config, passwords, tasks, results, main_pc>>

\* a direct caller builds the detector and awaits detect
DetectCall(t) ==
  /\ main_pc = "direct"
  /\ trial[t].pc = "pending"
  /\ trial' = [trial EXCEPT ![t] =
       IF ~SSHDetector_init(config.timeout, config.max_retries,
                            DefaultMinDelayMs, DefaultMaxDelayMs)
         THEN [@ EXCEPT !.pc = "raised", !.exc = "ValueError"]
         ELSE detect(@, tasks[t].target, config.port, tasks[t].username,
                     passwords, tasks[t].key, config)]
  /\ UNCHANGED <<config, passwords, tasks, results, main_pc>>

\* asyncio.to_thread(connect) completes and the coroutine resumes
ConnectDone(t, out, active) ==
  /\ trial[t].pc = "connecting"
  /\ CanLeave(out, active)
  /\ trial' = [trial EXCEPT ![t] =
       IF @.phase = "key"
         THEN key_outcome(Landed(@, out, active), config, passwords, out)
         ELSE password_outcome(Landed(@, out, active), config, passwords, out)]
  /\ UNCHANGED <<config, passwords, tasks, results, main_pc>>

\* asyncio.sleep(jitter) completes: next iteration of the key loop
SleepDone(t) ==
  /\ trial[t].pc = "sleeping"
  /\ trial' = [trial EXCEPT ![t] =
       key_loop(@, config, passwords, @.attempt + 1)]
  /\ UNCHANGED <<config, passwords, tasks, results, main_pc>>

\* run_detection recording a result for the task it gave up on
Deadline_recording(t, activeNow) ==
  /\ main_pc = "gather"
  /\ trial[t].pc \in {"connecting", "sleeping"}
  /\ trial[t].pc = "sleeping" => ~activeNow
  /\ trial' = [trial EXCEPT ![t] =
       [@ EXCEPT !.pc = "done", !.phase = "none", !.exc = "TimeoutError",
                 !.orphan = IF trial[t].pc = "sleeping" THEN "none"
                            ELSE IF trial[t].phase = "password" /\ activeNow
                                   THEN "closed"
                                   ELSE "running"]]
  /\ results' = Append(results,
                  add_result(tasks[t].protocol, tasks[t].target, config.port,
                             tasks[t].username, None, FALSE, Msg("task timeout")))
  /\ UNCHANGED <<config, passwords, tasks, main_pc>>

\* asyncio.wait_for(..., timeout=30) expires: CancelledError is thrown into
\* detect at its suspension point (only the finally clause of the password
\* path runs), the worker thread of to_thread keeps running, and
\* run_detection catches TimeoutError and logs it
Deadline(t, activeNow) ==
  /\ main_pc = "gather"
  /\ trial[t].pc \in {"connecting", "sleeping"}
  /\ trial[t].pc = "sleeping" => ~activeNow
  /\ trial' = [trial EXCEPT ![t] =
       [@ EXCEPT !.pc = "done", !.phase = "none", !.exc = "TimeoutError",
                 !.orphan = IF trial[t].pc = "sleeping" THEN "none"
                            ELSE IF trial[t].phase = "password" /\ activeNow
                                   THEN "closed"
                                   ELSE "running"]]
  /\ UNCHANGED <<config, passwords, tasks, results, main_pc>>

\* the worker thread left behind by a cancelled to_thread finishes connect
ThreadFinish(t, out, active) ==
  /\ trial[t].orphan # "none"
  /\ CanLeave(out, active)
  /\ trial[t].orphan = "closed" => out \in Failures /\ ~active
  /\ trial' = [trial EXCEPT ![t] =
       [Landed(@, out, active) EXCEPT !.orphan = "none"]]
  /\ UNCHANGED <<config, passwords, tasks, results, main_pc>>

\* run_detection storing a success in place of the list instead of
\* appending it
Collect_overwrite(t) ==
  /\ main_pc = "gather"
  /\ trial[t].pc \in {"detect_returned", "detect_raised"}
  /\ trial' = [trial EXCEPT ![t].pc = "done"]
  /\ results' =
       IF trial[t].pc = "detect_returned" /\ trial[t].ret.success
         THEN << add_result(tasks[t].protocol, tasks[t].target, config.port,
                            tasks[t].username, trial[t].ret.password,
                            trial[t].ret.success, trial[t].ret.error) >>
         ELSE results
  /\ UNCHANGED <<config, passwords, tasks, main_pc>>

\* run_detection after wait_for: record a success, log anything else
Collect(t) ==
  /\ main_pc = "gather"
  /\ trial[t].pc \in {"detect_returned", "detect_raised"}
  /\ trial' = [trial EXCEPT ![t].pc = "done"]
  /\ results' =
       IF trial[t].pc = "detect_returned" /\ trial[t].ret.success
         THEN Append(results,
                add_result(tasks[t].protocol, tasks[t].target, config.port,
                           tasks[t].username, trial[t].ret.password,
                           trial[t].ret.success, trial[t].ret.error))
         ELSE results
  /\ UNCHANGED <<config, passwords, tasks, main_pc>>

\* main going on to the report without waiting for the gathered tasks
GatherDone_early ==
  /\ main_pc = "gather"
  /\ main_pc' = "reported"
  /\ UNCHANGED <<config, passwords, tasks, trial, results>>

\* gather returns: summary log and generate_report
GatherDone ==
  /\ main_pc = "gather"
  /\ \A t \in Tasks : trial[t].pc = "done"
  /\ main_pc' = "reported"
  /\ UNCHANGED <<config, passwords, tasks, trial, results>>

\* gather re-raises the first exception of a task into main; asyncio.run
\* then cancels what is still running
GatherRaise ==
  /\ main_pc = "gather"
  /\ \E t \in Tasks : trial[t].pc = "raised"
  /\ \A t \in Tasks : trial[t].pc # "pending"
  /\ main_pc' = "aborted"
  /\ trial' = [t \in Tasks |->
       IF Running(trial[t])
         THEN [trial[t] EXCEPT !.pc = "cancelled",
                 !.orphan = IF trial[t].pc = "connecting" THEN "running" ELSE "none"]
         ELSE trial[t]]
  /\ UNCHANGED <<config, passwords, tasks, results>>

\* ---------------------------------------------------------- specifications
Init ==
  /\ config \in Configs
  /\ passwords \in PasswordLists \ {<<>>}
  /\ \E tl \in TargetLists, ul \in UsernameLists, pl \in ProtocolLists :
       /\ Len(tl) * Len(ul) * Len(pl) <= MaxTasks
       /\ tasks = CrossProduct(tl, ul, pl)
  /\ trial = [t \in DOMAIN tasks |-> NewTrial]
  /\ results = <<>>
  /\ main_pc = "gather"

Next ==
  \/ \E t \in Tasks : RunDetection(t)
  \/ \E t \in Tasks, out \in Outcomes, active \in BOOLEAN : ConnectDone(t, out, active)
  \/ \E t \in Tasks, activeNow \in BOOLEAN : Deadline(t, activeNow)
  \/ \E t \in Tasks, out \in Outcomes, active \in BOOLEAN : ThreadFinish(t, out, active)
  \/ \E t \in Tasks : Collect(t)
  \/ GatherDone
  \/ GatherRaise

Spec == Init /\ [][Next]_vars

InitDetect ==
  /\ config \in DetectArgs
  /\ passwords \in PasswordLists
  /\ \E tg \in {Ip1, EmptyTarget}, un \in {"root", ""}, k \in BOOLEAN :
       tasks = << [target |-> tg, username |-> un, protocol |-> "ssh", key |-> k] >>
  /\ trial = [t \in DOMAIN tasks |-> NewTrial]
  /\ results = <<>>
  /\ main_pc = "direct"

NextDetect ==
  \/ \E t \in Tasks : DetectCall(t)
  \/ \E t \in Tasks, out \in Outcomes, active \in BOOLEAN : ConnectDone(t, out, active)
  \/ \E t \in Tasks : SleepDone(t)

SpecDetect == InitDetect /\ [][NextDetect]_vars

\* both harnesses: a run of main, or a direct call of detect
InitAll == Init \/ InitDetect

NextAll == Next \/ NextDetect

SpecAll == InitAll /\ [][NextAll]_vars

\* the constructor alone, for every combination of its four arguments
CtorArgs ==
  [timeout : {0 - 1, 0, 1, DefaultTimeout},
   max_retries : RetryValues,
   min_delay : {0 - 1, 0, DefaultMinDelayMs},
   max_delay : {0 - 1, 0, DefaultMinDelayMs, DefaultMaxDelayMs},
   port : {DefaultSshPort},
   max_workers : {DefaultMaxWorkers}]

\* SSHDetector(timeout, max_retries, min_delay, max_delay)
Construct(t) ==
  /\ main_pc = "construct"
  /\ trial[t].pc = "pending"
  /\ trial' = [trial EXCEPT ![t] =
       IF SSHDetector_init(config.timeout, config.max_retries,
                           config.min_delay, config.max_delay)
         THEN [@ EXCEPT !.pc = "constructed"]
         ELSE [@ EXCEPT !.pc = "raised", !.exc = "ValueError"]]
  /\ UNCHANGED <<config, passwords, tasks, results, main_pc>>

InitConstruct ==
  /\ config \in CtorArgs
  /\ passwords = <<>>
  /\ tasks = << [target |-> Ip1, username |-> "root", protocol |-> "ssh",
                 key |-> FALSE] >>
  /\ trial = [t \in DOMAIN tasks |-> NewTrial]
  /\ results = <<>>
  /\ main_pc = "construct"

NextConstruct == \E t \in Tasks : Construct(t)

SpecConstruct == InitConstruct /\ [][NextConstruct]_vars

\* ------------------------------------------------------ history operators
\* the trial has handed its outcome to the caller of detect
Finished(r) == r.pc \in {"detect_returned", "detect_raised"}

\* the outcome of the trial is determined
Settled(r) == r.pc \in {"detect_returned", "detect_raised", "done", "raised", "cancelled"}

\* the detector was built and detect got past its argument checks
Engaged(t) ==
  /\ SSHDetector_init(config.timeout, config.max_retries,
                      DefaultMinDelayMs, DefaultMaxDelayMs)
  /\ MinPort <= config.port /\ config.port <= MaxPort
  /\ ~IsEmptyText(tasks[t].target)
  /\ tasks[t].username # ""

\* the credentials supplied to trial t, in the documented order
CredsOf(t) ==
  (IF tasks[t].key THEN <<0>> ELSE <<>>) \o [i \in 1..Len(passwords) |-> i]

CredSet(t) == (IF tasks[t].key THEN {0} ELSE {}) \cup (1..Len(passwords))

Tried(r) == [i \in 1..Len(r.log) |-> r.log[i].cred]

AllOutcomes(r, S) == \A i \in 1..Len(r.log) : r.log[i].out \in S

TriesOf(r, cred) == Cardinality({i \in 1..Len(r.log) : r.log[i].cred = cred})

NapsOf(r, cred) == Cardinality({i \in 1..Len(r.naps) : r.naps[i] = cred})

Retryable == {NoConnEx, OtherEx}

\* the message of a failed attempt, by credential and failure class
MessageOf(r, i) ==
  LET e == r.log[i]
  IN IF e.cred = 0
       THEN IF e.out = AuthEx THEN Msg("key auth failed")
            ELSE MsgN("connection attempt failed", i)
       ELSE CASE e.out = AuthEx -> Msg("auth failed")
              [] e.out = NoConnEx -> Msg("no connection")
              [] e.out = BadHostEx -> Msg("bad host key")
              [] e.out = SshEx -> Msg("ssh protocol error")
              [] OTHER -> Msg("unexpected error")

\* ------------------------------------------------------------------ claims

\* C1: when every attempt is rejected for authentication, each credential
\* is attempted exactly once, key first and then the passwords in list
\* order, without a retry sleep, and detect returns a non-success result
\* (for every max_retries >= 0 the constructor accepts).
C1_RejectedTriesEachOnce ==
  \A t \in Tasks :
    (Finished(trial[t]) /\ Engaged(t) /\ AllOutcomes(trial[t], {AuthEx}))
      => /\ Tried(trial[t]) = CredsOf(t)
         /\ trial[t].naps = <<>>
         /\ trial[t].pc = "detect_returned"
         /\ ~trial[t].ret.success

\* C2: when every attempt fails with a retryable failure, each credential
\* is attempted exactly max_retries + 1 times and followed by exactly
\* max_retries jitter sleeps.
C2_RetryableTriesBudget ==
  \A t \in Tasks :
    (Finished(trial[t]) /\ Engaged(t) /\ trial[t].log # <<>>
       /\ AllOutcomes(trial[t], Retryable))
      => \A cred \in CredSet(t) :
           /\ TriesOf(trial[t], cred) = config.max_retries + 1
           /\ NapsOf(trial[t], cred) = config.max_retries

\* C3: once the attempt of password N has succeeded no later attempt is
\* made in the trial, no sleep follows, and detect returns success = TRUE
\* with exactly passwords[N].
C3_FirstSuccessWins ==
  \A t \in Tasks :
    \A i \in 1..Len(trial[t].log) :
      (trial[t].log[i].cred > 0 /\ trial[t].log[i].out = Success)
        => /\ i = Len(trial[t].log)
           /\ \A j \in 1..Len(trial[t].log) :
                trial[t].log[j].cred <= trial[t].log[i].cred
           /\ trial[t].pc = "detect_returned"
           /\ trial[t].ret.success
           /\ trial[t].ret.password = passwords[trial[t].log[i].cred]

\* a password succeeded while a later password was still in the list
C3_Witness ==
  \E t \in Tasks :
    /\ trial[t].pc = "detect_returned"
    /\ trial[t].ret.success
    /\ trial[t].log # <<>>
    /\ trial[t].log[Len(trial[t].log)].out = Success
    /\ trial[t].log[Len(trial[t].log)].cred = 1
    /\ Len(passwords) > 1

\* C4: a successful key attempt ends the trial at once, with the key result
\* and without any password attempt; a password attempt is made only after
\* every key attempt has failed and the key loop has ended (rejection or
\* max_retries tries), or when no key was supplied.
C4_KeyBeforePasswords ==
  \A t \in Tasks :
    LET r == trial[t]
        keys == {j \in 1..Len(r.log) : r.log[j].cred = 0}
    IN /\ \A i \in keys :
            r.log[i].out = Success
              => /\ i = Len(r.log)
                 /\ keys = 1..Len(r.log)
                 /\ r.pc = "detect_returned"
                 /\ r.ret.success
                 /\ r.ret.key_used
                 /\ r.ret.password = None
       /\ \A i \in 1..Len(r.log) :
            r.log[i].cred > 0
              => /\ tasks[t].key <=> keys # {}
                 /\ \A j \in keys : j < i /\ r.log[j].out \in Failures
                 /\ keys # {} =>
                      \/ \E j \in keys : r.log[j].out = AuthEx /\ j = Cardinality(keys)
                      \/ Cardinality(keys) = config.max_retries

\* the key succeeded although passwords were supplied
C4_Witness ==
  \E t \in Tasks :
    /\ tasks[t].key
    /\ passwords # <<>>
    /\ trial[t].pc = "detect_returned"
    /\ trial[t].log # <<>>
    /\ trial[t].log[Len(trial[t].log)] = [cred |-> 0, out |-> Success]

\* C5: when detect returns without success after at least one attempt, the
\* error of the returned result is the message of the last failed attempt.
C5_LastErrorReported ==
  \A t \in Tasks :
    (trial[t].pc = "detect_returned" /\ ~trial[t].ret.success
       /\ trial[t].log # <<>>)
      => trial[t].ret.error = MessageOf(trial[t], Len(trial[t].log))

\* C6: once the run has reported, the result set holds exactly one result
\* per task, and a task that ran into its deadline has a non-success result
\* whose error tells of the task timeout.
C6_OneResultPerTask ==
  main_pc = "reported"
    => /\ Len(results) = Len(tasks)
       /\ \A t \in Tasks :
            trial[t].exc = "TimeoutError"
              => \E i \in 1..Len(results) :
                   /\ results[i].target = tasks[t].target
                   /\ results[i].username = tasks[t].username
                   /\ results[i].protocol = tasks[t].protocol
                   /\ ~results[i].success
                   /\ results[i].error = Msg("task timeout")

\* C7: a task that failed (deadline, unexpected error, invalid detector
\* configuration) never aborts the run and never gets a sibling cancelled.
C7_FailureIsolated ==
  \A t \in Tasks :
    trial[t].exc # "none"
      => /\ main_pc # "aborted"
         /\ \A u \in Tasks : trial[u].pc # "cancelled"

\* C8: once the outcome of a trial is determined, none of the sessions the
\* trial opened is still open.
C8_NoSessionLeft ==
  \A t \in Tasks : Settled(trial[t]) => trial[t].open = {}

\* C9: after the deadline of a task has fired no attempt of that task
\* starts or completes, and the step in which a deadline fires changes
\* nothing of any sibling task.
C9_DeadlineCancelsOnlyOwnTask ==
  [][\A t \in Tasks :
       /\ trial[t].exc = "TimeoutError" => trial'[t].log = trial[t].log
       /\ (trial[t].exc # "TimeoutError" /\ trial'[t].exc = "TimeoutError")
            => \A u \in Tasks \ {t} : trial'[u] = trial[u]]_vars

\* C10: the number of trial tasks in flight (a login attempt or a retry
\* sleep of theirs is in progress) never exceeds the configured bound
\* max_workers.
C10_ConcurrencyBounded ==
  Cardinality({t \in Tasks : trial[t].pc \in {"connecting", "sleeping"}})
    <= config.max_workers
\* the raw secrets of the run
RawSecrets == {passwords[i] : i \in 1..Len(passwords)}

\* C11: no result handed to the result handler carries the raw value of the
\* password that succeeded.
C11_NoRawSecretInResults ==
  \A i \in 1..Len(results) : results[i].password \notin RawSecrets
\* C12: the constructor succeeds for every policy with max_retries >= 0,
\* 0 <= min_delay <= max_delay and timeout > 0, and for every other policy
\* it fails with a ValueError before any attempt is made.
C12_ConstructorValidates ==
  \A t \in Tasks :
    trial[t].pc # "pending"
      => IF /\ config.max_retries >= 0
            /\ 0 <= config.min_delay
            /\ config.min_delay <= config.max_delay
            /\ config.timeout > 0
           THEN trial[t].pc = "constructed"
           ELSE /\ trial[t].pc = "raised"
                /\ trial[t].exc = "ValueError"
                /\ trial[t].log = <<>>

\* construction refused for the order of the two delays alone
C12_Witness ==
  \E t \in Tasks :
    /\ trial[t].pc = "raised"
    /\ config.max_retries >= 0
    /\ config.timeout > 0
    /\ config.min_delay >= 0
    /\ config.max_delay < config.min_delay
\* C13: with a port outside 1..65535 no login attempt is ever made, whatever
\* the credentials, and detect returns a non-success result carrying the
\* port error.
C13_InvalidPortNoAttempt ==
  \A t \in Tasks :
    ~(MinPort <= config.port /\ config.port <= MaxPort)
      => /\ trial[t].log = <<>>
         /\ trial[t].naps = <<>>
         /\ trial[t].open = {}
         /\ trial[t].pc \notin {"pending", "raised"}
              => /\ trial[t].pc = "detect_returned"
                 /\ ~trial[t].ret.success
                 /\ trial[t].ret.password = None
                 /\ trial[t].ret.error = Msg("invalid port")

\* detect has returned for port 70000 although a key and passwords were
\* supplied
C13_Witness ==
  \E t \in Tasks :
    /\ config.port = 70000
    /\ tasks[t].key
    /\ passwords # <<>>
    /\ trial[t].pc = "detect_returned"
\* C14: a jitter sleep begins only right after a failed try that was not an
\* authentication rejection and not a success, and it ends only by starting
\* the next try of the same credential; so there is no sleep before the
\* first try of a credential and none after its final try.
C14_SleepOnlyBetweenTries ==
  [][\A t \in Tasks :
       LET r == trial[t]
           r2 == trial'[t]
       IN /\ (r2.pc = "sleeping" /\ r.pc # "sleeping")
               => /\ r.pc = "connecting"
                  /\ Len(r2.log) = Len(r.log)
                  /\ r2.log[Len(r2.log)].out \in Failures \ {AuthEx}
          /\ (r.pc = "sleeping" /\ r2.pc # "sleeping")
               => /\ r2.pc = "connecting"
                  /\ Len(r2.log) = Len(r.log) + 1
                  /\ r2.log[Len(r2.log)].cred = r.log[Len(r.log)].cred
          /\ Len(r2.naps) > Len(r.naps) => r2.pc = "sleeping"]_vars

\* a credential is tried again after a sleep
C14_Witness ==
  \E t \in Tasks :
    /\ trial[t].naps # <<>>
    /\ trial[t].pc = "connecting"
    /\ Len(trial[t].log) >= 2
    /\ trial[t].log[Len(trial[t].log)].cred = trial[t].log[Len(trial[t].log) - 1].cred
\* the positions of the key attempts in the log of a trial
KeyTries(r) == {i \in 1..Len(r.log) : r.log[i].cred = 0}

\* after position i the engine has gone on to the password path
FellThrough(r, i) ==
  /\ \A j \in KeyTries(r) : j <= i
  /\ passwords # <<>> => Len(r.log) > i /\ r.log[i + 1].cred = 1

\* C15: a rejected key attempt is never followed by another key attempt and
\* the engine goes on to the passwords; a key attempt that failed otherwise
\* is tried again (after a sleep) as long as fewer than max_retries retries
\* were made, and after the last retry the engine goes on to the passwords.
C15_KeyRejectionNotRetried ==
  \A t \in Tasks :
    \A i \in KeyTries(trial[t]) :
      LET r == trial[t]
      IN /\ r.log[i].out = AuthEx => FellThrough(r, i)
         /\ r.log[i].out \in Failures \ {AuthEx}
              => IF i - 1 < config.max_retries
                   THEN \/ i = Len(r.log) /\ r.pc = "sleeping"
                        \/ Len(r.log) > i /\ r.log[i + 1].cred = 0
                   ELSE FellThrough(r, i)
\* C16: after a host key verification failure or a protocol error the same
\* credential is not attempted again, on the key path and on the password
\* path alike, and the engine goes on to the next credential if there is
\* one.
C16_VerificationFailureNotRetried ==
  \A t \in Tasks :
    \A i \in 1..Len(trial[t].log) :
      trial[t].log[i].out \in {BadHostEx, SshEx}
        => /\ \A j \in 1..Len(trial[t].log) :
                j > i => trial[t].log[j].cred # trial[t].log[i].cred
           /\ trial[t].log[i].cred < Len(passwords)
                => /\ Len(trial[t].log) > i
                   /\ trial[t].log[i + 1].cred = trial[t].log[i].cred + 1
\* C17: no failure of a login attempt leaves detect as an exception: after
\* any failed attempt the trial is still running or has returned a result.
C17_AttemptFailureNeverEscapes ==
  \A t \in Tasks :
    (trial[t].log # <<>>
       /\ trial[t].log[Len(trial[t].log)].out \in Failures)
      => /\ trial[t].pc \in {"connecting", "sleeping", "detect_returned"}
         /\ trial[t].exc = "none"
\* C18: a trial only moves forward: once a password was attempted no key
\* attempt is added, a trial that has returned (Succeeded or Exhausted)
\* never changes again, and a running trial stops only by returning a
\* result, as Succeeded or as Exhausted.
C18_ForwardOnlyStateMachine ==
  [][\A t \in Tasks :
       LET r == trial[t]
           r2 == trial'[t]
       IN /\ (\E i \in 1..Len(r.log) : r.log[i].cred > 0)
               => \A j \in (Len(r.log) + 1)..Len(r2.log) : r2.log[j].cred > 0
          /\ r.phase = "password" => r2.phase # "key"
          /\ r.pc = "detect_returned" => r2 = r
          /\ (r.pc \in {"connecting", "sleeping"}
                /\ r2.pc \notin {"connecting", "sleeping"})
               => r2.pc = "detect_returned"]_vars
\* C19: within a task at most one attempt is in progress, and it is the
\* latest one; the attempts of a task are made in the order of the
\* credentials, the key before every password and the passwords in list
\* order; tasks are not ordered among themselves.
C19_SequentialWithinTask ==
  \A t \in Tasks :
    LET r == trial[t]
    IN /\ \A i \in 1..Len(r.log) :
            r.log[i].out = "inflight"
              => /\ i = Len(r.log)
                 /\ r.pc = "connecting" \/ r.orphan # "none"
       /\ r.pc = "connecting"
            => r.log # <<>> /\ r.log[Len(r.log)].out = "inflight"
       /\ \A i, j \in 1..Len(r.log) :
            i < j => r.log[i].cred <= r.log[j].cred

\* two tasks have an attempt in flight at once, the second task being ahead
\* of the first
C19_Witness ==
  \E t, u \in Tasks :
    /\ t < u
    /\ trial[t].pc = "connecting"
    /\ trial[u].pc = "connecting"
    /\ Len(trial[t].log) = 1
    /\ Len(trial[u].log) = 2
\* the tasks that have finished with a login that detect saw succeed
Found == {t \in Tasks : /\ trial[t].pc = "done"
                        /\ trial[t].exc = "none"
                        /\ trial[t].log # <<>>
                        /\ trial[t].log[Len(trial[t].log)].out = Success}

\* the result a task of Found contributes, from its inputs and the outcomes
\* of its attempts alone; its error is the message left by the password
\* that failed just before, if any
ResultOf(t) ==
  LET n == Len(trial[t].log)
  IN [protocol |-> tasks[t].protocol, target |-> tasks[t].target,
      port |-> config.port, username |-> tasks[t].username,
      password |-> passwords[trial[t].log[n].cred],
      success |-> TRUE,
      error |-> IF n >= 2 /\ trial[t].log[n - 1].cred > 0
                  THEN MessageOf(trial[t], n - 1)
                  ELSE NoMsg]

\* C20: whatever the interleaving and the completion order of the tasks,
\* the collected results are, as a set, exactly the results of the tasks
\* that found a password, one entry each.
C20_AggregationOrderIndependent ==
  /\ {results[i] : i \in 1..Len(results)} = {ResultOf(t) : t \in Found}
  /\ Len(results) = Cardinality(Found)

\* the run has reported two results that were collected against task order
C20_Witness ==
  /\ main_pc = "reported"
  /\ Len(results) = 2
  /\ results[1].target = Ip2
  /\ results[2].target = Ip1
\* no task has handed a success to run_detection
FoundNone == results = <<>> /\ \A t \in Tasks : ~trial[t].ret.success

\* C21: a run in which no task finds a working credential completes
\* normally: when main has ended, every task has finished, no task raised
\* out of run_detection or was cancelled, main was not aborted, and the
\* report was generated with zero findings.
C21_NoFindingCompletesNormally ==
  (main_pc # "gather" /\ FoundNone)
    => /\ main_pc = "reported"
       /\ \A t \in Tasks : trial[t].pc = "done"
       /\ results = <<>>
Min(a, b) == IF a <= b THEN a ELSE b

Succeeded == {t \in Tasks : trial[t].pc = "done" /\ trial[t].ret.success}

\* C23: in every state of a run every entry of the results has success set
\* and there are no more entries than tasks completed with a successful
\* detection; the step in which a task ends otherwise (failure, exhausted
\* credentials, deadline, exception) leaves the results unchanged.
C23_OnlySuccessesRecorded ==
  /\ [](/\ \A i \in 1..Len(results) : results[i].success
        /\ Len(results) <= Cardinality(Succeeded))
  /\ [][\A t \in Tasks :
          (/\ trial[t].pc \notin {"done", "raised", "cancelled"}
           /\ trial'[t].pc \in {"done", "raised", "cancelled"}
           /\ ~(trial[t].pc = "detect_returned" /\ trial[t].ret.success))
            => results' = results]_vars

\* one task has recorded its finding, another ran into its deadline
C23_Witness ==
  \E t, u \in Tasks :
    /\ trial[t].pc = "done"
    /\ trial[t].ret.success
    /\ trial[u].pc = "done"
    /\ trial[u].exc = "TimeoutError"
    /\ Len(results) = 1
\* the number written by a field of one to three digits
FieldValue(f) ==
  IF Len(f) = 1 THEN f[1]
  ELSE IF Len(f) = 2 THEN 10 * f[1] + f[2]
  ELSE 100 * f[1] + 10 * f[2] + f[3]

\* a dotted-quad IPv4 address: four decimal fields of value 0..255 and
\* nothing else
DottedQuad(ip) ==
  /\ Len(ip) = 4
  /\ \A i \in 1..4 :
       /\ Len(ip[i]) \in 1..3
       /\ \A j \in 1..Len(ip[i]) : IsDigit(ip[i][j])
       /\ FieldValue(ip[i]) <= 255

\* C24: run_detection called with a protocol that is not registered, or
\* with a target that is not a dotted-quad IPv4 address, constructs no
\* detector, makes no login attempt and leaves the results unchanged.
C24_RejectedTaskDoesNothing ==
  \A t \in Tasks :
    (tasks[t].protocol \notin detectors \/ ~DottedQuad(tasks[t].target))
      => /\ trial[t].pc \in {"pending", "done"}
         /\ trial[t].exc = "none"
         /\ trial[t].log = <<>>
         /\ trial[t].orphan = "none"
         /\ \A i \in 1..Len(results) :
              ~(/\ results[i].protocol = tasks[t].protocol
                /\ results[i].target = tasks[t].target
                /\ results[i].username = tasks[t].username)
\* C25: the report is generated at most once in a run and only after every
\* trial task created by main has terminated (returned, failed or timed
\* out), and no result is added once the report has been generated.
C25_ReportOnceAfterAllTasks ==
  [][/\ (main_pc # "reported" /\ main_pc' = "reported")
          => /\ main_pc = "gather"
             /\ \A t \in Tasks : trial[t].pc = "done"
     /\ main_pc = "reported"
          => /\ main_pc' = "reported"
             /\ results' = results
             /\ \A t \in Tasks : trial'[t].pc = "done"]_vars

\* the report was generated with a finding while the connect of a task
\* that had timed out was still running in its worker thread
C25_Witness ==
  /\ main_pc = "reported"
  /\ results # <<>>
  /\ \E t \in Tasks : trial[t].exc = "TimeoutError" /\ trial[t].orphan = "running"
====
